---- MODULE Spec2Model ----
(***************************************************************************)
(* wifi.py: JSON scan records -> normalized rows -> heuristic scores ->    *)
(* CSV inventory.  The script is one sequential run; the model follows it  *)
(* statement by statement: read_json, the normalization loop, the          *)
(* DataFrame construction with the date parse, the row-wise scoring and    *)
(* the final write_csv.  An uncaught Python exception ends the run.        *)
(*                                                                         *)
(* Python values are tagged records; text is a TLA+ string, taken apart    *)
(* character by character with SubSeq.  Floating point numbers are held    *)
(* in thousandths (9.999 is 9999), which is exact for every number the     *)
(* model reads.                                                            *)
(***************************************************************************)
EXTENDS Integers, Sequences, FiniteSets, TLC

\* ------------------------------------------------------------ Python values
Absent == [t |-> "absent"]
None == [t |-> "null"]
Str(s) == [t |-> "str", v |-> s]
IntV(n) == [t |-> "int", v |-> n]
FloatV(m) == [t |-> "float", v |-> m]
BoolV(b) == [t |-> "bool", v |-> b]
List(xs) == [t |-> "list", v |-> xs]
Map(ps) == [t |-> "map", v |-> ps]
NaN == [t |-> "nan"]
NaT == [t |-> "nat"]
Raise(e) == [ok |-> FALSE, exc |-> e]
Ok(x) == [ok |-> TRUE, val |-> x]

Min(a, b) == IF a <= b THEN a ELSE b

Max(a, b) == IF a >= b THEN a ELSE b

\* ------------------------------------------------------------------ text
Char(s, i) == SubSeq(s, i, i)

Rest(s) == SubSeq(s, 2, Len(s))

Digits == "0123456789"

Whitespace == {" ", "\t", "\n", "\r"}

\* str.lower() / str.upper() on one character
LowerChar(c) ==
    CASE c = "A" -> "a" [] c = "B" -> "b" [] c = "C" -> "c" [] c = "D" -> "d"
      [] c = "E" -> "e" [] c = "F" -> "f" [] c = "G" -> "g" [] c = "H" -> "h"
      [] c = "I" -> "i" [] c = "J" -> "j" [] c = "K" -> "k" [] c = "L" -> "l"
      [] c = "M" -> "m" [] c = "N" -> "n" [] c = "O" -> "o" [] c = "P" -> "p"
      [] c = "Q" -> "q" [] c = "R" -> "r" [] c = "S" -> "s" [] c = "T" -> "t"
      [] c = "U" -> "u" [] c = "V" -> "v" [] c = "W" -> "w" [] c = "X" -> "x"
      [] c = "Y" -> "y" [] c = "Z" -> "z"
      [] OTHER -> c

UpperChar(c) ==
    CASE c = "a" -> "A" [] c = "b" -> "B" [] c = "c" -> "C" [] c = "d" -> "D"
      [] c = "e" -> "E" [] c = "f" -> "F" [] c = "g" -> "G" [] c = "h" -> "H"
      [] c = "i" -> "I" [] c = "j" -> "J" [] c = "k" -> "K" [] c = "l" -> "L"
      [] c = "m" -> "M" [] c = "n" -> "N" [] c = "o" -> "O" [] c = "p" -> "P"
      [] c = "q" -> "Q" [] c = "r" -> "R" [] c = "s" -> "S" [] c = "t" -> "T"
      [] c = "u" -> "U" [] c = "v" -> "V" [] c = "w" -> "W" [] c = "x" -> "X"
      [] c = "y" -> "Y" [] c = "z" -> "Z"
      [] OTHER -> c

RECURSIVE Lower(_)
Lower(s) == IF Len(s) = 0 THEN "" ELSE LowerChar(Char(s, 1)) \o Lower(Rest(s))

RECURSIVE Upper(_)
Upper(s) == IF Len(s) = 0 THEN "" ELSE UpperChar(Char(s, 1)) \o Upper(Rest(s))

\* needle in hay
Contains(hay, needle) ==
    LET h == hay
        n == needle
    IN \E k \in 1..(Len(h) - Len(n) + 1) : SubSeq(h, k, k + Len(n) - 1) = n

StartsWith(s, p) == Len(s) >= Len(p) /\ SubSeq(s, 1, Len(p)) = p

\* s[:n]
Prefix(s, n) == SubSeq(s, 1, Min(n, Len(s)))

IsDigit(c) == c \in {"0", "1", "2", "3", "4", "5", "6", "7", "8", "9"}

DigitVal(c) ==
    CASE c = "0" -> 0 [] c = "1" -> 1 [] c = "2" -> 2 [] c = "3" -> 3
      [] c = "4" -> 4 [] c = "5" -> 5 [] c = "6" -> 6 [] c = "7" -> 7
      [] c = "8" -> 8 [] c = "9" -> 9
      [] OTHER -> -1

RECURSIVE ParseDigits(_, _)
ParseDigits(s, acc) ==
    IF Len(s) = 0 THEN acc ELSE ParseDigits(Rest(s), acc * 10 + DigitVal(Char(s, 1)))

AllDigits(s) == Len(s) > 0 /\ \A i \in 1..Len(s) : IsDigit(Char(s, i))

RECURSIVE NatToStr(_)
NatToStr(n) ==
    IF n < 10 THEN Char(Digits, n + 1)
    ELSE NatToStr(n \div 10) \o Char(Digits, (n % 10) + 1)

IntToStr(n) == IF n < 0 THEN "-" \o NatToStr(0 - n) ELSE NatToStr(n)

Pad2(n) == IF n < 10 THEN "0" \o NatToStr(n) ELSE NatToStr(n)

Pad4(n) ==
    IF n < 10 THEN "000" \o NatToStr(n)
    ELSE IF n < 100 THEN "00" \o NatToStr(n)
    ELSE IF n < 1000 THEN "0" \o NatToStr(n)
    ELSE NatToStr(n)

\* str.strip()
RECURSIVE LStrip(_)
LStrip(s) ==
    IF Len(s) > 0 /\ Char(s, 1) \in Whitespace THEN LStrip(Rest(s)) ELSE s

RECURSIVE RStrip(_)
RStrip(s) ==
    IF Len(s) > 0 /\ Char(s, Len(s)) \in Whitespace
    THEN RStrip(SubSeq(s, 1, Len(s) - 1))
    ELSE s

Strip(s) == RStrip(LStrip(s))

\* str(float): the shortest decimal of a number held in thousandths
FracStr(f) ==
    IF f % 100 = 0 THEN NatToStr(f \div 100)
    ELSE IF f % 10 = 0 THEN Pad2(f \div 10)
    ELSE IF f < 10 THEN "00" \o NatToStr(f)
    ELSE IF f < 100 THEN "0" \o NatToStr(f)
    ELSE NatToStr(f)

FloatToStr(m) ==
    LET a == IF m < 0 THEN 0 - m ELSE m
    IN (IF m < 0 THEN "-" ELSE "") \o NatToStr(a \div 1000) \o "." \o FracStr(a % 1000)

\* repr() / str() of a parsed JSON value
RECURSIVE PyRepr(_)
RECURSIVE JoinRepr(_)
RECURSIVE JoinItems(_)
JoinRepr(xs) ==
    IF Len(xs) = 0 THEN ""
    ELSE IF Len(xs) = 1 THEN PyRepr(xs[1])
    ELSE PyRepr(xs[1]) \o ", " \o JoinRepr(Tail(xs))

JoinItems(ps) ==
    IF Len(ps) = 0 THEN ""
    ELSE LET one == "'" \o ps[1][1] \o "': " \o PyRepr(ps[1][2])
         IN IF Len(ps) = 1 THEN one ELSE one \o ", " \o JoinItems(Tail(ps))

PyRepr(x) ==
    CASE x.t = "str" -> "'" \o x.v \o "'"
      [] x.t = "int" -> IntToStr(x.v)
      [] x.t = "float" -> FloatToStr(x.v)
      [] x.t = "nan" -> "nan"
      [] x.t = "bool" -> IF x.v THEN "True" ELSE "False"
      [] x.t = "null" -> "None"
      [] x.t = "list" -> "[" \o JoinRepr(x.v) \o "]"
      [] x.t = "map" -> "{" \o JoinItems(x.v) \o "}"

PyStr(x) == IF x.t = "str" THEN x.v ELSE PyRepr(x)

\* float(x)
PyFloat(x) ==
    CASE x.t = "int" -> Ok(FloatV(x.v * 1000))
      [] x.t = "float" -> Ok(x)
      [] x.t = "nan" -> Ok(NaN)
      [] x.t = "bool" -> Ok(FloatV(IF x.v THEN 1000 ELSE 0))
      [] x.t = "str" ->
            LET s == Strip(x.v)
                neg == StartsWith(s, "-")
                d == IF neg THEN Rest(s) ELSE s
            IN IF AllDigits(d)
               THEN Ok(FloatV((IF neg THEN -1 ELSE 1) * ParseDigits(d, 0) * 1000))
               ELSE Raise("ValueError")
      [] OTHER -> Raise("TypeError")

\* bool(x)
Truthy(x) ==
    CASE x.t \in {"null", "absent"} -> FALSE
      [] x.t = "bool" -> x.v
      [] x.t \in {"int", "float"} -> x.v # 0
      [] x.t = "str" -> Len(x.v) > 0
      [] x.t \in {"list", "map"} -> Len(x.v) > 0
      [] OTHER -> TRUE

\* dict.get(key, default) on a parsed JSON object (pairs in file order)
DictGet(m, key, default) ==
    IF \E i \in 1..Len(m.v) : m.v[i][1] = key
    THEN m.v[CHOOSE i \in 1..Len(m.v) : m.v[i][1] = key][2]
    ELSE default

DictKeys(m) == [i \in 1..Len(m.v) |-> m.v[i][1]]

\* ----------------------------------------------------- Record Normalizer
\* row.get(key, default) on a raw record; a key the JSON object lacks is Absent
Get(row, key, default) == IF row[key].t = "absent" THEN default ELSE row[key]

EntropyClamp == 100

BssidDisplayLen == 8

RsnDisplayLen == 60

\* try: entropy = int(len(bssid) * 2.5)  except Exception: entropy = np.nan
EntropyTruncated(bssid) ==
    IF bssid.t \in {"str", "list", "map"}
    THEN IntV((Min(Len(bssid.v), BssidDisplayLen) * 5) \div 2)
    ELSE NaN

Entropy(bssid) ==
    IF bssid.t \in {"str", "list", "map"} THEN IntV((Len(bssid.v) * 5) \div 2) ELSE NaN

\* ent_penalty = min(entropy, 100): Python's min keeps its first argument
\* unless the second compares smaller, so a nan stays
EntPenalty(entropy) ==
    IF entropy.t = "nan" THEN NaN ELSE IntV(Min(entropy.v, EntropyClamp))

\* m = re.search(r'(\d+)', bw_raw); int(m.group(1)) or None
RECURSIVE DigitRunEnd(_, _)
DigitRunEnd(s, i) ==
    IF i < Len(s) /\ IsDigit(Char(s, i + 1)) THEN DigitRunEnd(s, i + 1) ELSE i

BandwidthMhz(bw_raw) ==
    IF \E i \in 1..Len(bw_raw) : IsDigit(Char(bw_raw, i))
    THEN LET a == CHOOSE i \in 1..Len(bw_raw) :
                    /\ IsDigit(Char(bw_raw, i))
                    /\ \A j \in 1..(i - 1) : ~IsDigit(Char(bw_raw, j))
         IN IntV(ParseDigits(SubSeq(bw_raw, a, DigitRunEnd(bw_raw, a)), 0))
    ELSE None

\* bw_raw = str(row.get("bandwidth", "")).strip()
BwRaw(row) == Strip(PyStr(Get(row, "bandwidth", Str(""))))

\* beacon_int = float(row["beacon_int"]) if "beacon_int" in row else np.nan
BeaconInt(row) ==
    IF row.beacon_int.t # "absent" THEN PyFloat(row.beacon_int) ELSE Ok(NaN)

\* x[0]
First(x) ==
    CASE x.t = "list" -> IF Len(x.v) = 0 THEN Raise("IndexError") ELSE Ok(x.v[1])
      [] x.t = "str" -> IF Len(x.v) = 0 THEN Raise("IndexError") ELSE Ok(Str(Char(x.v, 1)))
      [] x.t = "map" -> Raise("KeyError")
      [] OTHER -> Raise("TypeError")

\* float(row.get("rssis", {}).get("all", [np.nan])[0])
RssiDbm(row) ==
    LET rssis == Get(row, "rssis", Map(<<>>))
    IN IF rssis.t # "map" THEN Raise("AttributeError")
       ELSE LET first == First(DictGet(rssis, "all", List(<<NaN>>)))
            IN IF first.ok THEN PyFloat(first.val) ELSE first

SsidOrEmpty(row) == Ok(Get(row, "ssid", Str("")))

\* row["ssid"]
Ssid(row) == IF row.ssid.t = "absent" THEN Raise("KeyError") ELSE Ok(row.ssid)

\* bssid[:8]
BssidDisplay(bssid) ==
    CASE bssid.t = "str" -> Ok(Str(Prefix(bssid.v, BssidDisplayLen)))
      [] bssid.t = "list" -> Ok(List(Prefix(bssid.v, BssidDisplayLen)))
      [] OTHER -> Raise("TypeError")

\* row.get("ie_info", "").get("RSN", []) and list(row["ie_info"].keys())
IeInfo(row) ==
    LET ie_info == Get(row, "ie_info", Str(""))
    IN IF ie_info.t # "map" THEN Raise("AttributeError")
       ELSE Ok([rsn_ies |-> DictGet(ie_info, "RSN", List(<<>>)),
                ie_keys |-> DictKeys(ie_info)])

\* one pass of the body of `for row in data`: the appended row, or the
\* exception that ends the run, in the order the statements raise
Normalize(row) ==
    LET date_str == Get(row, "timestamp", None)
        bssid == Get(row, "mac_addr", Str(""))
        oui == Get(row, "vendor", Str(""))
        ie == IeInfo(row)
        beacon_int == BeaconInt(row)
        ent_penalty == EntPenalty(Entropy(bssid))
        bw_raw == BwRaw(row)
        shown == BssidDisplay(bssid)
        ssid == Ssid(row)
        rssi == RssiDbm(row)
    IN IF ~ie.ok THEN ie
       ELSE IF ~beacon_int.ok THEN beacon_int
       ELSE IF ~shown.ok THEN shown
       ELSE IF ~ssid.ok THEN ssid
       ELSE IF ~rssi.ok THEN rssi
       ELSE Ok([date |-> date_str,
                bssid |-> shown.val,
                oui_vendor |-> oui,
                ssid |-> ssid.val,
                chan |-> Get(row, "channel", Str("")),
                bandwidth |-> bw_raw,
                bandwidth_mhz |-> BandwidthMhz(bw_raw),
                beacon_int |-> beacon_int.val,
                rssi_dbm |-> rssi.val,
                ie_keys |-> ie.val.ie_keys,
                rsn_ies |-> Prefix(PyStr(ie.val.rsn_ies), RsnDisplayLen),
                entropy_penalty |-> ent_penalty])

columns ==
    <<"date", "bssid", "oui_vendor", "ssid", "chan", "bandwidth", "bandwidth_mhz",
      "beacon_int", "rssi_dbm", "ie_keys", "rsn_ies", "entropy_penalty">>

\* ------------------------------------------------------------ date column
\* pd.to_datetime on one cell: None becomes NaT; an ISO "YYYY-MM-DDTHH:MM:SS"
\* (or with a space) text becomes that instant; any other text raises.
IsoShape(s) ==
    /\ Len(s) = 19
    /\ \A i \in {1, 2, 3, 4, 6, 7, 9, 10, 12, 13, 15, 16, 18, 19} : IsDigit(Char(s, i))
    /\ Char(s, 5) = "-" /\ Char(s, 8) = "-"
    /\ Char(s, 11) \in {"T", " "}
    /\ Char(s, 14) = ":" /\ Char(s, 17) = ":"

IsoFields(s) ==
    [y |-> ParseDigits(SubSeq(s, 1, 4), 0), mo |-> ParseDigits(SubSeq(s, 6, 7), 0),
     d |-> ParseDigits(SubSeq(s, 9, 10), 0), h |-> ParseDigits(SubSeq(s, 12, 13), 0),
     mi |-> ParseDigits(SubSeq(s, 15, 16), 0), s |-> ParseDigits(SubSeq(s, 18, 19), 0)]

DaysIn(y, mo) ==
    IF mo = 2 THEN (IF (y % 4 = 0 /\ y % 100 # 0) \/ y % 400 = 0 THEN 29 ELSE 28)
    ELSE IF mo \in {4, 6, 9, 11} THEN 30 ELSE 31

ValidFields(f) ==
    /\ f.mo \in 1..12 /\ f.d >= 1 /\ f.d <= DaysIn(f.y, f.mo)
    /\ f.h <= 23 /\ f.mi <= 59 /\ f.s <= 59

ToDatetimeCell(x) ==
    CASE x.t = "null" -> Ok(NaT)
      [] x.t = "str" ->
            IF IsoShape(x.v) /\ ValidFields(IsoFields(x.v))
            THEN Ok([t |-> "ts"] @@ IsoFields(x.v))
            ELSE Raise("ValueError")

\* df["date"] = pd.to_datetime(df.date).dt.tz_localize(None)
ToDatetime(rs) ==
    LET cells == [k \in 1..Len(rs) |-> ToDatetimeCell(rs[k].date)]
    IN IF \E k \in 1..Len(rs) : ~cells[k].ok THEN Raise("ValueError")
       ELSE Ok([k \in 1..Len(rs) |-> [rs[k] EXCEPT !.date = cells[k].val]])

\* date_format="%Y-%m-%d %H:%M:%S"; NaT is written as the empty cell
FormatDate(x) ==
    IF x.t = "nat" THEN ""
    ELSE Pad4(x.y) \o "-" \o Pad2(x.mo) \o "-" \o Pad2(x.d) \o " "
         \o Pad2(x.h) \o ":" \o Pad2(x.mi) \o ":" \o Pad2(x.s)

\* ----------------------------------------------------------------- Scorer
MatchOuiCaseSensitive(ssid, vendor) ==
    IF ssid.t # "str" THEN Raise("AttributeError")
    ELSE Ok(\E key \in {"Aironet", "Ralink"} : Contains(ssid.v, key))

\* match_oui: some base_vendor key, lowered, occurs in ssid.lower()
match_oui(ssid, vendor) ==
    IF ssid.t # "str" THEN Raise("AttributeError")
    ELSE Ok(\E key \in {"Aironet", "Ralink"} : Contains(Lower(ssid.v), Lower(key)))

base_expected == <<"WPA2", "WPA3", "WEP", "WPA/TKIP">>

\* for k in base_expected: "WEP" if "WEP" in k.lower() else k.upper()
expected_ies ==
    [n \in 1..Len(base_expected) |->
        IF Contains(Lower(base_expected[n]), "WEP") THEN "WEP" ELSE Upper(base_expected[n])]

RsnMismatchChecked(rsn_ies) ==
    LET expected == expected_ies
    IN IF \E n \in 1..Len(rsn_ies) : \E e \in 1..Len(expected) :
              Char(rsn_ies, n) = expected[e]
       THEN 0 ELSE 3

\* scores["rsnmismatch"] starts at 0; the loop over the characters of the
\* displayed rsn_ies text assigns 0 again on a match
RECURSIVE RsnLoop(_, _, _)
RsnLoop(rsn_ies, expected, score) ==
    IF Len(rsn_ies) = 0 THEN score
    ELSE LET ie_type == Char(rsn_ies, 1)
             hit == \E e \in 1..Len(expected) : ie_type = expected[e]
         IN RsnLoop(Rest(rsn_ies), expected, IF hit THEN 0 ELSE score)

RsnMismatch(rsn_ies) ==
    LET expected == expected_ies IN RsnLoop(rsn_ies, expected, 0)

\* Series.get(key): the cell of that column, None when the row has no such column
SeriesGet(row, key) == IF key \in DOMAIN row THEN row[key] ELSE None

\* startswith("40") or startswith("80") or row.get("multi_channel")
MultiChannel(row) ==
    IF \/ StartsWith(row.bandwidth, "40")
       \/ StartsWith(row.bandwidth, "80")
       \/ Truthy(SeriesGet(row, "multi_channel"))
    THEN 2 ELSE 0

BeaconMin == 10000

BeaconMax == 10000000

TimingOkStrict(beacon_int) ==
    LET f == PyFloat(beacon_int)
    IN f.ok /\ f.val.t = "float" /\ f.val.v > BeaconMin /\ f.val.v < BeaconMax

\* float(row["beacon_int"]) >= 10.000 and <= 10000; a nan compares false
TimingOk(beacon_int) ==
    LET f == PyFloat(beacon_int)
    IN f.ok /\ f.val.t = "float" /\ f.val.v >= BeaconMin /\ f.val.v <= BeaconMax

RECURSIVE MaxOf(_)
MaxOf(xs) == IF Len(xs) = 1 THEN xs[1] ELSE Max(xs[1], MaxOf(Tail(xs)))

RECURSIVE SumOf(_)
SumOf(xs) == IF Len(xs) = 0 THEN 0 ELSE xs[1] + SumOf(Tail(xs))

TotalScoreSum(values) == SumOf(values)

\* max(scores.values()), the values in the dict's order, total_score (0) last
TotalScore(values) == MaxOf(values)

Negated(x) == CASE x.t = "int" -> 0 - x.v

compute_scores(row) ==
    LET vendor_match == match_oui(row.ssid, row.oui_vendor)
    IN IF ~vendor_match.ok THEN vendor_match
       ELSE LET ouinomismatch == IF ~vendor_match.val THEN 3 ELSE 0
                rsnmismatch == RsnMismatch(row.rsn_ies)
                multi_channel == MultiChannel(row)
                timing_anomalie == IF ~TimingOk(row.beacon_int) THEN 3 ELSE 0
                entropy_penalty == Negated(row.entropy_penalty)
            IN Ok([ouinomismatch |-> ouinomismatch,
                   rsnmismatch |-> rsnmismatch,
                   multi_channel |-> multi_channel,
                   timing_anomalie |-> timing_anomalie,
                   entropy_penalty |-> entropy_penalty,
                   total_score |-> TotalScore(<<ouinomismatch, rsnmismatch, multi_channel,
                                                timing_anomalie, entropy_penalty, 0>>)])

\* ------------------------------------------------------ Inventory Exporter
RECURSIVE DropDuplicates(_)
DropDuplicates(rs) ==
    IF Len(rs) = 0 THEN <<>>
    ELSE LET front == DropDuplicates(SubSeq(rs, 1, Len(rs) - 1))
         IN IF \E k \in 1..Len(front) : front[k] = rs[Len(rs)]
            THEN front ELSE Append(front, rs[Len(rs)])

CsvTableDeduplicated(frame) ==
    [header |-> columns,
     rows |-> DropDuplicates([k \in 1..Len(frame) |->
                                [frame[k] EXCEPT !.date = FormatDate(@)]])]

\* df.to_csv(out_path, index=False, date_format=..., header=True)
CsvTable(frame) ==
    [header |-> columns,
     rows |-> [k \in 1..Len(frame) |-> [frame[k] EXCEPT !.date = FormatDate(@)]]]

\* ------------------------------------------------------------------ inputs
MaxRecords == 2

Base ==
    [timestamp |-> Str("2024-01-01T00:00:00"), mac_addr |-> Str("AA:BB:CC:DD:EE:FF"),
     vendor |-> Str("Acme"), ssid |-> Str("FreeWifi"), channel |-> IntV(6),
     bandwidth |-> Str("HT/20"), beacon_int |-> IntV(100),
     rssis |-> Map(<< <<"all", List(<<IntV(-40)>>)>> >>),
     ie_info |-> Map(<< <<"RSN", List(<<>>)>> >>), multi_channel |-> Absent]

LongMac == "AA:BB:CC:DD:EE:FF-AA:BB:CC:DD:EE:FF-AA:BB:CC"

\* records with one required or optional field broken
BrokenRecords ==
    {[Base EXCEPT !.timestamp = Str("garbage")],
     [Base EXCEPT !.mac_addr = None],
     [Base EXCEPT !.ssid = Absent],
     [Base EXCEPT !.ssid = None],
     [Base EXCEPT !.beacon_int = Str("abc")],
     [Base EXCEPT !.rssis = Map(<< <<"all", List(<<>>)>> >>)],
     [Base EXCEPT !.rssis = None],
     [Base EXCEPT !.ie_info = Absent],
     [Base EXCEPT !.ie_info = List(<<Str("RSN")>>)]}

\* records that differ from Base in fields the script reads tolerantly
VariedRecords ==
    {[Base EXCEPT !.timestamp = Absent, !.mac_addr = Absent, !.vendor = Absent,
                  !.ssid = Str("Aironet-AP"), !.channel = Absent, !.bandwidth = Absent,
                  !.beacon_int = Absent, !.rssis = Absent, !.ie_info = Map(<<>>)],
     [Base EXCEPT !.multi_channel = BoolV(TRUE)],
     [Base EXCEPT !.ssid = Str("myRALINKnet"), !.mac_addr = Str(LongMac),
                  !.bandwidth = Str("40"), !.beacon_int = FloatV(9999),
                  !.rssis = Map(<<>>), !.multi_channel = BoolV(FALSE),
                  !.ie_info = Map(<< <<"HT", IntV(1)>>,
                                     <<"RSN", List(<<Str("WPA2"), Str("WEP")>>)>> >>)],
     [Base EXCEPT !.ssid = Str("Aironet-AP"), !.beacon_int = FloatV(10000),
                  !.ie_info = Map(<< <<"RSN", List(<<Str("FOO")>>)>> >>)],
     [Base EXCEPT !.vendor = Str("Ralink"), !.mac_addr = Str("00:2B:81:00:00:01")],
     [Base EXCEPT !.timestamp = Str("2024-02-29T23:59:59"), !.bandwidth = Str(" 80+80 "),
                  !.beacon_int = IntV(10000),
                  !.rssis = Map(<< <<"all", List(<<IntV(0)>>)>> >>)],
     [Base EXCEPT !.timestamp = None, !.mac_addr = Str(""), !.bandwidth = IntV(40),
                  !.beacon_int = FloatV(10000001)],
     [Base EXCEPT !.bandwidth = Str("VHT80"), !.beacon_int = Str("100"),
                  !.ie_info = Map(<< <<"RSN", Str("WEP")>> >>)]}

Records == {Base} \cup BrokenRecords \cup VariedRecords

RECURSIVE SeqsUpTo(_, _)
SeqsUpTo(S, n) ==
    IF n = 0 THEN {<<>>}
    ELSE LET shorter == SeqsUpTo(S, n - 1)
         IN shorter \cup {Append(q, x) : q \in {r \in shorter : Len(r) = n - 1}, x \in S}

\* the file named by --input-json: missing, not JSON, or an array of records
InputFiles ==
    {[kind |-> "missing", content |-> <<>>], [kind |-> "invalid", content |-> <<>>]}
    \cup {[kind |-> "ok", content |-> d] : d \in SeqsUpTo(Records, MaxRecords)}

NoFile == [header |-> <<>>, rows |-> <<>>]

StaleFile == [header |-> <<"stale">>, rows |-> <<>>]

NoExc == [stage |-> "", name |-> ""]

\* ------------------------------------------------------------------- state
VARIABLES pc, input, data, i, rows, df, df_scores, outFile, written, exc

vars == <<pc, input, data, i, rows, df, df_scores, outFile, written, exc>>

Init ==
    /\ pc = "start"
    /\ input \in InputFiles
    /\ data = <<>>
    /\ i = 1
    /\ rows = <<>>
    /\ df = <<>>
    /\ df_scores = <<>>
    /\ outFile \in {NoFile, StaleFile}
    /\ written = 0
    /\ exc = NoExc

\* an uncaught exception: the interpreter exits, nothing after it runs
Abort(stage, name) ==
    /\ pc' = "aborted"
    /\ exc' = [stage |-> stage, name |-> name]

\* data = read_json(args.input_json)
ReadJson ==
    /\ pc = "start"
    /\ IF input.kind = "ok"
       THEN /\ data' = input.content
            /\ pc' = "normalize"
            /\ exc' = exc
       ELSE /\ Abort("load", IF input.kind = "missing" THEN "FileNotFoundError"
                                                       ELSE "ValueError")
            /\ data' = data
    /\ UNCHANGED <<input, i, rows, df, df_scores, outFile, written>>

NormalizeRowSkipping ==
    /\ pc = "normalize"
    /\ i <= Len(data)
    /\ LET r == Normalize(data[i])
       IN /\ rows' = IF r.ok THEN Append(rows, r.val) ELSE rows
          /\ i' = i + 1
          /\ UNCHANGED <<pc, exc>>
    /\ UNCHANGED <<input, data, df, df_scores, outFile, written>>

\* one iteration of `for row in data`
NormalizeRow ==
    /\ pc = "normalize"
    /\ i <= Len(data)
    /\ LET r == Normalize(data[i])
       IN IF r.ok
          THEN /\ rows' = Append(rows, r.val)
               /\ i' = i + 1
               /\ UNCHANGED <<pc, exc>>
          ELSE /\ Abort("normalize", r.exc)
               /\ UNCHANGED <<rows, i>>
    /\ UNCHANGED <<input, data, df, df_scores, outFile, written>>

\* df = pd.DataFrame(rows, columns=columns); df["date"] = pd.to_datetime(...)
BuildFrame ==
    /\ pc = "normalize"
    /\ i > Len(data)
    /\ LET r == ToDatetime(rows)
       IN IF r.ok
          THEN /\ df' = r.val
               /\ pc' = "score"
               /\ exc' = exc
          ELSE /\ Abort("date", r.exc)
               /\ df' = df
    /\ UNCHANGED <<input, data, i, rows, df_scores, outFile, written>>

\* df.apply(compute_scores, axis=1), one row at a time
ScoreRow ==
    /\ pc = "score"
    /\ Len(df_scores) < Len(df)
    /\ LET r == compute_scores(df[Len(df_scores) + 1])
       IN IF r.ok
          THEN /\ df_scores' = Append(df_scores, r.val)
               /\ UNCHANGED <<pc, exc>>
          ELSE /\ Abort("score", r.exc)
               /\ df_scores' = df_scores
    /\ UNCHANGED <<input, data, i, rows, df, outFile, written>>

\* write_csv(df, args.output_csv)
WriteCsv ==
    /\ pc = "score"
    /\ Len(df_scores) = Len(df)
    /\ outFile' = CsvTable(df)
    /\ written' = written + 1
    /\ pc' = "done"
    /\ UNCHANGED <<input, data, i, rows, df, df_scores, exc>>

Next == ReadJson \/ NormalizeRow \/ BuildFrame \/ ScoreRow \/ WriteCsv

Spec == Init /\ [][Next]_vars

\* ------------------------------------------------------------------ claims
Scored == 1..Len(df_scores)

Max4(s) ==
    Max(s.ouinomismatch, Max(s.rsnmismatch, Max(s.multi_channel, s.timing_anomalie)))

\* thousandths of a raw JSON number
Milli(x) == IF x.t = "int" THEN x.v * 1000 ELSE x.v

\* C1: the CSV is written at most once, and only when the input was parsed,
\* every record normalized, the date column parsed and every row scored; a
\* run that aborts (unreadable input, or a fatal error at any step) has
\* written nothing and left whatever was at the output path untouched.
C1_AllOrNothing ==
    /\ written <= 1
    /\ written = 1 =>
          /\ pc = "done"
          /\ exc = NoExc
          /\ input.kind = "ok"
          /\ Len(rows) = Len(input.content)
          /\ Len(df) = Len(input.content)
          /\ Len(df_scores) = Len(input.content)
          /\ \A k \in 1..Len(df) : df[k].date.t \in {"ts", "nat"}
          /\ outFile.header = columns
    /\ written = 0 => outFile \in {NoFile, StaleFile}
    /\ pc = "aborted" => written = 0 /\ exc # NoExc
    /\ input.kind # "ok" => pc \in {"start", "aborted"}

\* C1 witness: a run that aborted as late as it can, while scoring the second
\* row, with a file already at the output path that is still there.
C1_Witness ==
    /\ pc = "aborted"
    /\ exc.stage = "score"
    /\ Len(df_scores) = 1
    /\ outFile = StaleFile

\* the required-field defects the claim lists
RequiredBrokenAsClaimed(r) ==
    \/ r.ssid.t = "absent"
    \/ r.timestamp.t = "absent"
    \/ r.timestamp.t = "str" /\ ~ToDatetimeCell(r.timestamp).ok
    \/ r.ie_info.t # "map"

\* the defects that are fatal: an absent timestamp is not among them
RequiredBroken(r) ==
    \/ r.ssid.t = "absent"
    \/ r.timestamp.t = "str" /\ ~ToDatetimeCell(r.timestamp).ok
    \/ r.ie_info.t # "map"

\* C2 as stated: a record with ssid absent, timestamp absent or unparseable,
\* or ie_info absent or not a mapping keeps the run from its CSV write.
C2_RequiredFatalAsClaimed ==
    (input.kind = "ok" /\ \E k \in 1..Len(input.content) :
                              RequiredBrokenAsClaimed(input.content[k]))
        => pc # "done" /\ written = 0

\* C2 amended: a record with ssid absent, a timestamp text that does not
\* parse, or ie_info absent or not a mapping keeps the run from its CSV
\* write; a record without a timestamp does not.
C2_RequiredFatal ==
    (input.kind = "ok" /\ \E k \in 1..Len(input.content) :
                              RequiredBroken(input.content[k]))
        => pc # "done" /\ written = 0

\* C2 witness: the run ended on the KeyError of a record without ssid.
C2_Witness ==
    /\ pc = "aborted"
    /\ exc = [stage |-> "normalize", name |-> "KeyError"]
    /\ data[i].ssid.t = "absent"
    /\ written = 0

\* C3: a record whose required fields are valid never aborts normalization
\* over its optional fields, and rssi_dbm / beacon_int are the not-a-number
\* sentinel when rssis.all is absent or empty / beacon_int is absent.
C3_OptionalNeverFatal ==
    /\ (pc = "aborted" /\ exc.stage = "normalize") =>
          ~(/\ data[i].ssid.t = "str"
            /\ data[i].timestamp.t = "str" /\ ToDatetimeCell(data[i].timestamp).ok
            /\ data[i].ie_info.t = "map"
            /\ data[i].mac_addr.t \in {"str", "absent"})
    /\ \A k \in 1..Len(rows) :
          /\ data[k].beacon_int.t = "absent" => rows[k].beacon_int.t = "nan"
          /\ (\/ data[k].rssis.t = "absent"
              \/ data[k].rssis.t = "map" /\ DictGet(data[k].rssis, "all", Absent).t = "absent"
              \/ data[k].rssis.t = "map" /\ DictGet(data[k].rssis, "all", Absent) = List(<<>>))
                => rows[k].rssi_dbm.t = "nan"

\* C4 as stated: entropy_penalty is min(int(len(mac_addr[:8]) * 2.5), 100),
\* a function of the displayed 8-character bssid.
C4_EntropyOfDisplayedBssid ==
    \A k \in 1..Len(rows) :
        rows[k].bssid.t = "str" =>
            /\ rows[k].entropy_penalty.t = "int"
            /\ rows[k].entropy_penalty.v = Min((Len(rows[k].bssid.v) * 5) \div 2, 100)

\* C4 amended: entropy_penalty is min(int(len(mac_addr) * 2.5), 100), a
\* function of the length of the whole raw MAC text ("" when absent), and
\* lies in 0..100.
C4_EntropyOfRawMac ==
    \A k \in 1..Len(rows) :
        LET mac == Get(data[k], "mac_addr", Str(""))
        IN /\ rows[k].entropy_penalty.t = "int"
           /\ rows[k].entropy_penalty.v = Min((Len(mac.v) * 5) \div 2, 100)
           /\ rows[k].entropy_penalty.v \in 0..100

\* C4 witness: the 17-character MAC gives 42 and a 44-character one is
\* clamped to 100, both shown as 8 characters.
C4_Witness ==
    /\ Len(rows) = 2
    /\ data[1].mac_addr = Str("AA:BB:CC:DD:EE:FF")
    /\ rows[1].bssid = Str("AA:BB:CC") /\ rows[1].entropy_penalty.v = 42
    /\ data[2].mac_addr = Str(LongMac)
    /\ rows[2].bssid = Str("AA:BB:CC") /\ rows[2].entropy_penalty.v = 100

C6_MultiChannelFlag ==
    \A k \in Scored :
        df_scores[k].multi_channel =
            IF \/ StartsWith(df[k].bandwidth, "40")
               \/ StartsWith(df[k].bandwidth, "80")
               \/ Truthy(data[k].multi_channel)
            THEN 2 ELSE 0

\* C7: total_score is the maximum of the five sub-scores, and as the
\* entropy term is never positive, the maximum of the other four.
C7_TotalIsMax ==
    \A k \in Scored :
        LET s == df_scores[k]
        IN /\ s.total_score = Max(Max4(s), s.entropy_penalty)
           /\ s.entropy_penalty <= 0
           /\ s.total_score = Max4(s)

\* C7 witness: a row whose four other sub-scores are 0 and whose entropy
\* term is negative has total_score 0.
C7_Witness ==
    \E k \in Scored :
        /\ Max4(df_scores[k]) = 0
        /\ df_scores[k].entropy_penalty = -42
        /\ df_scores[k].total_score = 0

\* C8: timing_anomaly is 0 exactly when beacon_int is a number in
\* [10, 10000] and 3 otherwise, a missing beacon_int included.
C8_TimingRange ==
    \A k \in Scored :
        LET b == data[k].beacon_int
            t == df_scores[k].timing_anomalie
        IN /\ t \in {0, 3}
           /\ b.t = "absent" => t = 3
           /\ df[k].beacon_int.t = "nan" => t = 3
           /\ b.t \in {"int", "float"} =>
                 (t = 0 <=> (Milli(b) >= 10000 /\ Milli(b) <= 10000000))

\* C8 witness: 10.000 scored 0 and 9.999 scored 3 in one run.
C8_Witness ==
    /\ Len(df_scores) = 2
    /\ data[1].beacon_int = FloatV(10000) /\ df_scores[1].timing_anomalie = 0
    /\ data[2].beacon_int = FloatV(9999) /\ df_scores[2].timing_anomalie = 3

\* C9: oui_mismatch is 0 when "aironet" or "ralink" occurs in the ssid,
\* whatever the case, and 3 otherwise; rows with equal ssid get equal
\* oui_mismatch whatever their vendor and MAC.
C9_OuiFromSsid ==
    /\ \A k \in Scored :
          df_scores[k].ouinomismatch =
              IF \/ Contains(Lower(df[k].ssid.v), "aironet")
                 \/ Contains(Lower(df[k].ssid.v), "ralink")
              THEN 0 ELSE 3
    /\ \A k, l \in Scored :
          df[k].ssid = df[l].ssid => df_scores[k].ouinomismatch = df_scores[l].ouinomismatch

\* C9 witness: an upper-case token in the ssid scored 0, and a record whose
\* vendor is Ralink with the Ralink OUI but an unrelated ssid scored 3.
C9_Witness ==
    /\ Len(df_scores) = 2
    /\ df[1].ssid = Str("myRALINKnet") /\ df_scores[1].ouinomismatch = 0
    /\ df[2].ssid = Str("FreeWifi") /\ df[2].oui_vendor = Str("Ralink")
    /\ df[2].bssid = Str("00:2B:81") /\ df_scores[2].ouinomismatch = 3

\* C10: rsn_mismatch is 0 for every scored row, whatever its RSN list.
C10_RsnAlwaysZero == \A k \in Scored : df_scores[k].rsnmismatch = 0

\* C10 witness: a row listing known suites and a row listing an unknown
\* one were both scored.
C10_Witness ==
    /\ Len(df_scores) = 2
    /\ df[1].rsn_ies = "['WPA2', 'WEP']"
    /\ df[2].rsn_ies = "['FOO']"

====
